---- MODULE Spec2Model ----
(***************************************************************************)
(* ApprovedUsers (backend/src/call/approval_persistence.rs): the set of    *)
(* approved users of a call and the write-behind driver that persists it.  *)
(*                                                                         *)
(* The owner calls insert, remove and tick.  spawn starts a background     *)
(* task on the runtime; the task optionally sleeps, sends the request and  *)
(* races it against PERSISTENCE_TIMEOUT; after a response it waits out     *)
(* MINIMUM_REQUEST_INTERVAL.  tick reaps the finished task.                *)
(*                                                                         *)
(* Time is counted in units of 100 ms.  The clock moves from one timer     *)
(* deadline to the next (Advance); the runtime polls a task at the instant *)
(* its timer fires or its response arrives, as the paused-clock tests of   *)
(* the file do with advance() followed by yield_now().                     *)
(*                                                                         *)
(* Spec is the object in either mode, called with or without a runtime;    *)
(* SpecRt the object with a uri, called inside the runtime.  SpecStore     *)
(* adds the remote store and the transport, which are not part of the      *)
(* file: the store accepts the snapshot of a request it answers OK, and    *)
(* the request of an attempt that timed out locally stays at the transport *)
(* and may be delivered later or lost.  SpecLive is SpecStore for an owner *)
(* that stops changing the set, with tick and the runtime scheduled        *)
(* fairly.                                                                 *)
(***************************************************************************)
EXTENDS Integers, FiniteSets, Sequences, TLC

\* ---------------------------------------------------------------- bounds
NumUsers == 2        \* user ids are 1..NumUsers
MaxTasks == 2        \* task slots of the runtime
MaxLatency == 2      \* response latencies are 0..MaxLatency units
JitterSteps == 2     \* rand::random::<f64>() is k/JitterSteps, k < JitterSteps
SeqCap == 5          \* the retry history of a task saturates here
MutCap == 2          \* the count of membership changes during a task saturates here
MaxChanges == 2      \* membership changes of an owner that stops making them

\* ------------------------------------------------------ program constants
PERSISTENCE_TIMEOUT == 100
MINIMUM_REQUEST_INTERVAL == 1
MAX_RETRIES == 3
StatusOK == 200
REQUEST_TIMEOUT == 408
INTERNAL_SERVER_ERROR == 500

Users == 1..NumUsers
Slots == 1..MaxTasks
Latencies == 0..MaxLatency
PlanKinds == {"ok", "status", "err", "pending", "panic"}

Min2(a, b) == IF a < b THEN a ELSE b

VARIABLES
    set,               \* self.set
    future,            \* self.future: 0 is None, else the slot of the task
    modified,          \* self.modified
    persistence_mode,  \* "Off" or "Uri"
    retry_count,       \* self.retry_count
    tasks,             \* the runtime's tasks, by slot
    last,              \* history: the step taken last
    since,             \* history: time since the latest request was sent,
                       \* saturating at MINIMUM_REQUEST_INTERVAL
    store,             \* the remote store: the snapshot it accepted last
    limbo,             \* the request of a locally timed-out attempt that the
                       \* transport may still deliver
    budget             \* the membership changes the owner will still make,
                       \* for an owner that stops making them

vars == <<set, future, modified, persistence_mode, retry_count, tasks, last, since,
          store, limbo, budget>>

\* JoinHandle output: Result<StatusCode, JoinError>
JoinOk(status) == [join |-> "Ok", status |-> status]
JoinErr == [join |-> "Err", status |-> 0]
NoResult == [join |-> "None", status |-> 0]

\* A task slot.  phase: "none" (free), "spawned" (not yet at the request:
\* sleeping until time_to_start, or awaiting its first poll), "request" (in
\* select!), "min" (awaiting minimum_time_taken), "done" (finished).
\* body is the serialized set; timer the time left to time_to_start; age the
\* time since the request was sent; plan/at what the transport will answer
\* and when; result the task's output.  History: waited is the time slept
\* before the request, muts the membership changes made while the task
\* ran, seq the task's place among the retries of one attempt (0 for an
\* attempt spawned without delay), by who spawned it ("tick", or a
\* membership change made while "busy", while "idle", or after the driver had
\* given up: "rearm").
NoTask ==
    [phase |-> "none", body |-> {}, timer |-> 0, age |-> 0,
     plan |-> "pending", at |-> 0, result |-> NoResult,
     waited |-> 0, muts |-> 0, seq |-> 0, by |-> "none"]

NewTask(body, wait) ==
    [phase |-> "spawned", body |-> body, timer |-> wait, age |-> 0,
     plan |-> "pending", at |-> 0, result |-> NoResult,
     waited |-> 0, muts |-> 0, seq |-> 0, by |-> "none"]

Live(t) == t.phase \in {"spawned", "request", "min"}

\* JoinHandle::is_finished
IsFinished(ts, f) == ts[f].phase = "done"

\* ----------------------------------------------------------------- driver
\* The driver's operations act on a record of the object's fields plus the
\* runtime's tasks; spawned counts the tasks the operation has created and
\* ret is the bool that insert and remove return.
Self ==
    [set |-> set, future |-> future, modified |-> modified,
     mode |-> persistence_mode, retry_count |-> retry_count,
     tasks |-> tasks, spawned |-> 0, wait |-> 0, ret |-> FALSE]

\* Dropping a JoinHandle detaches the task; a finished task is gone with it.
Release(ts, f) ==
    IF f # 0 /\ ts[f].phase = "done" THEN [ts EXCEPT ![f] = NoTask] ELSE ts

FreeSlot(ts) == CHOOSE i \in Slots : ts[i].phase = "none" /\ \A j \in Slots : ts[j].phase = "none" => i <= j

\* Whether spawn finds a slot (always, with one driver and MaxTasks >= 2).
HasSlot(s) ==
    \E i \in Slots : s.tasks[i].phase = "none" \/ (i = s.future /\ s.tasks[i].phase = "done")

\* Variant of spawn(): the persistence mode is not looked at.
SpawnIgnoresOff(s, wait, rt) ==
    IF ~rt THEN s
    ELSE LET ts == Release(s.tasks, s.future)
             i == FreeSlot(ts)
         IN [s EXCEPT !.tasks = [ts EXCEPT ![i] = NewTask(s.set, wait)],
                      !.future = i,
                      !.spawned = @ + 1,
                      !.wait = wait]

\* Variant of spawn(): the runtime is not looked for.
SpawnIgnoresRuntime(s, wait, rt) ==
    IF s.mode = "Off" THEN s
    ELSE LET ts == Release(s.tasks, s.future)
             i == FreeSlot(ts)
         IN [s EXCEPT !.tasks = [ts EXCEPT ![i] = NewTask(s.set, wait)],
                      !.future = i,
                      !.spawned = @ + 1,
                      !.wait = wait]

\* spawn(wait): wait = 0 is None.  rt: Handle::try_current() is Ok.
Spawn(s, wait, rt) ==
    IF s.mode = "Off" THEN s
    ELSE IF ~rt THEN s
    ELSE LET ts == Release(s.tasks, s.future)
             i == FreeSlot(ts)
         IN [s EXCEPT !.tasks = [ts EXCEPT ![i] = NewTask(s.set, wait)],
                      !.future = i,
                      !.spawned = @ + 1,
                      !.wait = wait]

\* Variant of modified(): spawns without looking at the tracked attempt.
ModifiedAlways(s, rt) ==
    Spawn([s EXCEPT !.retry_count = 0], 0, rt)

\* Variant of modified(): a change made during an attempt is not recorded.
ModifiedNoFlag(s, rt) ==
    IF s.future # 0 /\ ~IsFinished(s.tasks, s.future)
    THEN s
    ELSE Spawn([s EXCEPT !.retry_count = 0], 0, rt)

\* Variant of modified(): retry_count is left as it is.
ModifiedNoReset(s, rt) ==
    IF s.future # 0 /\ ~IsFinished(s.tasks, s.future)
    THEN [s EXCEPT !.modified = TRUE]
    ELSE Spawn(s, 0, rt)

\* Variant of modified(): a change made while the tracked attempt has not
\* yet sent its request is written into that attempt's payload.
ModifiedUpdatesPending(s, rt) ==
    IF s.future # 0 /\ ~IsFinished(s.tasks, s.future)
    THEN IF s.tasks[s.future].phase = "spawned"
         THEN [s EXCEPT !.tasks[s.future].body = s.set]
         ELSE [s EXCEPT !.modified = TRUE]
    ELSE Spawn([s EXCEPT !.retry_count = 0], 0, rt)

\* Variant of modified(): the dirty flag is cleared when an attempt is spawned.
ModifiedClearsFlag(s, rt) ==
    IF s.future # 0 /\ ~IsFinished(s.tasks, s.future)
    THEN [s EXCEPT !.modified = TRUE]
    ELSE Spawn([s EXCEPT !.retry_count = 0, !.modified = FALSE], 0, rt)

\* modified()
Modified(s, rt) ==
    IF s.future # 0 /\ ~IsFinished(s.tasks, s.future)
    THEN [s EXCEPT !.modified = TRUE]
    ELSE Spawn([s EXCEPT !.retry_count = 0], 0, rt)

\* Variant of insert(): notifies the driver before the set is changed.
InsertOpNotifyFirst(s, v, rt) ==
    IF v \notin s.set
    THEN [Spawn([s EXCEPT !.retry_count = 0], 0, rt) EXCEPT !.set = @ \cup {v}, !.ret = TRUE]
    ELSE s

\* Variant of insert(): the driver is notified whether or not the set changed.
InsertOpAlwaysNotify(s, v, rt) ==
    Modified([s EXCEPT !.set = @ \cup {v}, !.ret = v \notin s.set], rt)

\* insert(value) / remove(value)
InsertOp(s, v, rt) ==
    IF v \notin s.set
    THEN Modified([s EXCEPT !.set = @ \cup {v}, !.ret = TRUE], rt)
    ELSE s

\* Variant of remove(): reports a change whether or not the value was present.
RemoveOpAlwaysTrue(s, v, rt) ==
    Modified([s EXCEPT !.set = @ \ {v}, !.ret = TRUE], rt)

RemoveOp(s, v, rt) ==
    IF v \in s.set
    THEN Modified([s EXCEPT !.set = @ \ {v}, !.ret = TRUE], rt)
    ELSE s

\* is_busy()
IsBusy(f) == f # 0

\* Variant of the classification: a failed task counts as needing a retry.
NeedsRetryOnJoinError(res) ==
    IF res.join = "Ok" THEN res.status # StatusOK ELSE TRUE

\* tick's classification of the JoinHandle's output
NeedsRetry(res) ==
    IF res.join = "Ok" THEN res.status # StatusOK ELSE FALSE

\* 1 << n
Pow2(n) == 2 ^ n

\* Variant of the backoff: the random factor is not added to 1.
BackoffNoFloor(n, k) == (Pow2(n) * 10 * k) \div JitterSteps

\* (1 << retry_count) * (1.0 + rand::random::<f64>()) seconds, in units of
\* 100 ms, with the random value k / JitterSteps.
Backoff(n, k) == (Pow2(n) * 10 * (JitterSteps + k)) \div JitterSteps

\* Variant of tick(): the retry is decided before the pending change.
TickOpRetryFirst(s, k, rt) ==
    IF s.future = 0 THEN s
    ELSE IF ~IsFinished(s.tasks, s.future) THEN s
    ELSE LET res == s.tasks[s.future].result
             taken == [s EXCEPT !.future = 0, !.tasks = Release(s.tasks, s.future)]
         IN IF NeedsRetry(res)
            THEN LET inc == [taken EXCEPT !.retry_count = @ + 1]
                 IN IF inc.retry_count > MAX_RETRIES
                    THEN inc
                    ELSE Spawn(inc, Backoff(inc.retry_count, k), rt)
            ELSE IF taken.modified
            THEN Spawn([taken EXCEPT !.modified = FALSE, !.retry_count = 0], 0, rt)
            ELSE taken

\* Variant of tick(): gives up one retry early.
TickOpOffByOne(s, k, rt) ==
    IF s.future = 0 THEN s
    ELSE IF ~IsFinished(s.tasks, s.future) THEN s
    ELSE LET res == s.tasks[s.future].result
             taken == [s EXCEPT !.future = 0, !.tasks = Release(s.tasks, s.future)]
         IN IF taken.modified
            THEN Spawn([taken EXCEPT !.modified = FALSE, !.retry_count = 0], 0, rt)
            ELSE IF NeedsRetry(res)
            THEN LET inc == [taken EXCEPT !.retry_count = @ + 1]
                 IN IF inc.retry_count >= MAX_RETRIES
                    THEN inc
                    ELSE Spawn(inc, Backoff(inc.retry_count, k), rt)
            ELSE taken

\* Variant of tick(): the dirty flag is not cleared before the follow-up.
TickOpKeepsFlag(s, k, rt) ==
    IF s.future = 0 THEN s
    ELSE IF ~IsFinished(s.tasks, s.future) THEN s
    ELSE LET res == s.tasks[s.future].result
             taken == [s EXCEPT !.future = 0, !.tasks = Release(s.tasks, s.future)]
         IN IF taken.modified
            THEN Spawn([taken EXCEPT !.retry_count = 0], 0, rt)
            ELSE IF NeedsRetry(res)
            THEN LET inc == [taken EXCEPT !.retry_count = @ + 1]
                 IN IF inc.retry_count > MAX_RETRIES
                    THEN inc
                    ELSE Spawn(inc, Backoff(inc.retry_count, k), rt)
            ELSE taken

\* Variant of tick(): an unfinished handle is not put back.
TickOpDropsUnfinished(s, k, rt) ==
    IF s.future = 0 THEN s
    ELSE IF ~IsFinished(s.tasks, s.future) THEN [s EXCEPT !.future = 0]
    ELSE LET res == s.tasks[s.future].result
             taken == [s EXCEPT !.future = 0, !.tasks = Release(s.tasks, s.future)]
         IN IF taken.modified
            THEN Spawn([taken EXCEPT !.modified = FALSE, !.retry_count = 0], 0, rt)
            ELSE IF NeedsRetry(res)
            THEN LET inc == [taken EXCEPT !.retry_count = @ + 1]
                 IN IF inc.retry_count > MAX_RETRIES
                    THEN inc
                    ELSE Spawn(inc, Backoff(inc.retry_count, k), rt)
            ELSE taken

\* Variant of tick(): the retry budget is not looked at.
TickOpNoLimit(s, k, rt) ==
    IF s.future = 0 THEN s
    ELSE IF ~IsFinished(s.tasks, s.future) THEN s
    ELSE LET res == s.tasks[s.future].result
             taken == [s EXCEPT !.future = 0, !.tasks = Release(s.tasks, s.future)]
         IN IF taken.modified
            THEN Spawn([taken EXCEPT !.modified = FALSE, !.retry_count = 0], 0, rt)
            ELSE IF NeedsRetry(res)
            THEN LET inc == [taken EXCEPT !.retry_count = @ + 1]
                 IN Spawn(inc, Backoff(inc.retry_count, k), rt)
            ELSE taken

\* tick(); k is the random draw
TickOp(s, k, rt) ==
    IF s.future = 0 THEN s
    ELSE IF ~IsFinished(s.tasks, s.future) THEN s
    ELSE LET res == s.tasks[s.future].result
             taken == [s EXCEPT !.future = 0, !.tasks = Release(s.tasks, s.future)]
         IN IF taken.modified
            THEN Spawn([taken EXCEPT !.modified = FALSE, !.retry_count = 0], 0, rt)
            ELSE IF NeedsRetry(res)
            THEN LET inc == [taken EXCEPT !.retry_count = @ + 1]
                 IN IF inc.retry_count > MAX_RETRIES
                    THEN inc
                    ELSE Spawn(inc, Backoff(inc.retry_count, k), rt)
            ELSE taken

\* ---------------------------------------------------------------- the task
\* The task returns res; its timers and its request are dropped.
Finish(t, res) ==
    [t EXCEPT !.phase = "done", !.result = res,
              !.age = Min2(@, MINIMUM_REQUEST_INTERVAL), !.at = 0]

\* Variant of the response branch: minimum_time_taken is not awaited.
RespondNoMinimum(t) ==
    IF t.plan = "err"
    THEN Finish(t, JoinOk(INTERNAL_SERVER_ERROR))
    ELSE Finish(t, JoinOk(IF t.plan = "ok" THEN StatusOK ELSE INTERNAL_SERVER_ERROR))

\* The response reaches the task (the request branch of select!).
Respond(t) ==
    IF t.plan = "err"
    THEN Finish(t, JoinOk(INTERNAL_SERVER_ERROR))
    ELSE LET status == IF t.plan = "ok" THEN StatusOK ELSE INTERNAL_SERVER_ERROR
         IN IF t.age >= MINIMUM_REQUEST_INTERVAL
            THEN Finish(t, JoinOk(status))
            ELSE [t EXCEPT !.phase = "min", !.result = JoinOk(status)]

\* The task reaches the request: it builds and sends it and enters select!.
\* plan "panic": the task panics there; "pending": no response ever comes.
StartTask(t, plan, at) ==
    IF plan = "panic"
    THEN Finish([t EXCEPT !.plan = plan, !.waited = 0], JoinErr)
    ELSE LET sent == [t EXCEPT !.phase = "request", !.plan = plan, !.at = at,
                               !.age = 0, !.waited = 0]
         IN IF plan # "pending" /\ at = 0 THEN Respond(sent) ELSE sent

\* Time to the task's next timer or response.
NextEvent(t) ==
    CASE t.phase = "spawned" -> t.timer
      [] t.phase = "request" ->
            IF t.plan = "pending" THEN PERSISTENCE_TIMEOUT - t.age
            ELSE Min2(t.at, PERSISTENCE_TIMEOUT) - t.age
      [] t.phase = "min" -> MINIMUM_REQUEST_INTERVAL - t.age
      [] OTHER -> 0

\* The task after d units of time.
AdvanceTask(t, d) ==
    CASE t.phase = "spawned" -> [t EXCEPT !.timer = @ - d, !.waited = @ + d]
      [] t.phase = "request" ->
            LET u == [t EXCEPT !.age = @ + d]
            IN IF u.plan # "pending" /\ u.age = u.at /\ u.age < PERSISTENCE_TIMEOUT
               THEN Respond(u)
               ELSE IF u.age >= PERSISTENCE_TIMEOUT
               THEN Finish(u, JoinOk(REQUEST_TIMEOUT))
               ELSE u
      [] t.phase = "min" ->
            LET u == [t EXCEPT !.age = @ + d]
            IN IF u.age >= MINIMUM_REQUEST_INTERVAL THEN Finish(u, u.result) ELSE u
      [] OTHER -> t

\* A finished task nobody holds a handle to is gone.
Reap(ts, f) ==
    [i \in Slots |-> IF ts[i].phase = "done" /\ i # f THEN NoTask ELSE ts[i]]

\* ------------------------------------------------------------------ history
\* last: the owner's call that produced the state, the tasks it spawned and
\* what is remembered of the finished task whose handle it took from
\* self.future (tick) or replaced there (insert, remove).  A call that
\* changed nothing, and a step of a task, leave NoStep.
NoReap == [result |-> NoResult, plan |-> "pending", muts |-> 0, seq |-> 0]

NoStep == [op |-> "none", spawned |-> 0, reaped |-> NoReap]

Reaped(t) == [result |-> t.result, plan |-> t.plan, muts |-> t.muts, seq |-> t.seq]

\* The tasks after an owner call: the task it spawned is stamped with its
\* spawner and its place among the retries, and a membership change is noted
\* on the task it found running.
Stamp(op, s) ==
    [i \in Slots |->
        IF s.spawned > 0 /\ i = s.future
        THEN [s.tasks[i] EXCEPT
                !.by = IF op = "tick" THEN "tick"
                       ELSE IF future # 0 THEN "busy"
                       ELSE IF retry_count > MAX_RETRIES THEN "rearm" ELSE "idle",
                !.seq = IF op = "tick" /\ s.wait > 0
                        THEN Min2(tasks[future].seq + 1, SeqCap) ELSE 0]
        ELSE IF s.set # set /\ i = future /\ Live(s.tasks[i])
        THEN [s.tasks[i] EXCEPT !.muts = Min2(@ + 1, MutCap)]
        ELSE s.tasks[i]]

Commit(op, s) ==
    /\ set' = s.set
    /\ future' = s.future
    /\ modified' = s.modified
    /\ retry_count' = s.retry_count
    /\ tasks' = Stamp(op, s)
    /\ last' = IF s = Self
               THEN NoStep
               ELSE [op |-> op, spawned |-> s.spawned,
                     reaped |-> IF future # 0 /\ tasks[future].phase = "done"
                                THEN Reaped(tasks[future]) ELSE NoReap]
    /\ UNCHANGED <<persistence_mode, since, store, limbo>>

\* ------------------------------------------------------------------ actions
InsertStep(v, rt) ==
    /\ HasSlot(Self)
    /\ Commit("insert", InsertOp(Self, v, rt))

RemoveStep(v, rt) ==
    /\ HasSlot(Self)
    /\ Commit("remove", RemoveOp(Self, v, rt))

Insert(v, rt) == InsertStep(v, rt) /\ UNCHANGED budget

Remove(v, rt) == RemoveStep(v, rt) /\ UNCHANGED budget

Tick(k, rt) ==
    /\ HasSlot(Self)
    /\ Commit("tick", TickOp(Self, k, rt))
    /\ UNCHANGED budget

\* A membership change of an owner that makes budget more of them.
CountedChange(v) ==
    /\ budget > 0
    /\ IF v \in set THEN RemoveStep(v, TRUE) ELSE InsertStep(v, TRUE)
    /\ budget' = budget - 1

\* The runtime polls a task that is due to send its request.
StartStep(i, plan, at) ==
    /\ tasks[i].phase = "spawned"
    /\ tasks[i].timer = 0
    /\ plan \in {"pending", "panic"} => at = 0
    /\ tasks' = Reap([tasks EXCEPT ![i] = StartTask(tasks[i], plan, at)], future)
    /\ since' = IF plan = "panic" THEN since ELSE 0
    /\ last' = NoStep
    /\ UNCHANGED <<set, future, modified, persistence_mode, retry_count, budget>>

\* Time passes up to the next timer or response of a task; the tasks it
\* wakes run.  No time passes while a task is due to send its request.
TimeStep ==
    /\ \E i \in Slots : Live(tasks[i])
    /\ \A i \in Slots : ~(tasks[i].phase = "spawned" /\ tasks[i].timer = 0)
    /\ LET due == {NextEvent(tasks[i]) : i \in {j \in Slots : Live(tasks[j])}}
           d == CHOOSE x \in due : \A y \in due : x <= y
       IN /\ tasks' = Reap([i \in Slots |-> AdvanceTask(tasks[i], d)], future)
          /\ since' = Min2(since + d, MINIMUM_REQUEST_INTERVAL)
    /\ last' = NoStep
    /\ UNCHANGED <<set, future, modified, persistence_mode, retry_count, budget>>

\* The remote store.  has: a snapshot was accepted; regressed: the snapshot
\* held was taken before one accepted earlier.  limbo.overtaken: a snapshot
\* taken later than the request in limbo has been accepted.
NoSnapshot == [has |-> FALSE, body |-> {}, regressed |-> FALSE]

NoLimbo == [has |-> FALSE, body |-> {}, overtaken |-> FALSE]

\* The tasks whose request got the OK response in the step from ts to ts2:
\* the store has accepted their payload.
Accepted(ts, ts2) ==
    {i \in Slots : /\ ts[i].phase \in {"spawned", "request"}
                   /\ ts2[i].phase \in {"min", "done"}
                   /\ ts2[i].result = JoinOk(StatusOK)}

\* The tasks that timed out locally in the step: their request is dropped by
\* the task but not recalled from the transport.
TimedOut(ts, ts2) ==
    {i \in Slots : /\ ts[i].phase = "request"
                   /\ ts2[i].phase = "done"
                   /\ ts2[i].result = JoinOk(REQUEST_TIMEOUT)}

\* What a step of the tasks does to the store and to the transport.
Remote ==
    LET acc == Accepted(tasks, tasks')
        out == TimedOut(tasks, tasks')
    IN /\ store' = IF acc # {}
                   THEN [has |-> TRUE, body |-> tasks'[CHOOSE i \in acc : TRUE].body,
                         regressed |-> FALSE]
                   ELSE store
       /\ limbo' = IF out # {}
                   THEN [has |-> TRUE, body |-> tasks'[CHOOSE i \in out : TRUE].body,
                         overtaken |-> FALSE]
                   ELSE IF acc # {} /\ limbo.has
                   THEN [limbo EXCEPT !.overtaken = TRUE]
                   ELSE limbo

\* The task steps with the remote side left out of sight.
TaskStart(i, plan, at) == StartStep(i, plan, at) /\ UNCHANGED <<store, limbo>>

Advance == TimeStep /\ UNCHANGED <<store, limbo>>

\* The task steps together with the store and the transport.
TaskStartRemote(i, plan, at) == StartStep(i, plan, at) /\ Remote

AdvanceRemote == TimeStep /\ Remote

\* The transport delivers the request in limbo and the store accepts it.
Deliver ==
    /\ limbo.has
    /\ store' = [has |-> TRUE, body |-> limbo.body, regressed |-> limbo.overtaken]
    /\ limbo' = NoLimbo
    /\ last' = NoStep
    /\ UNCHANGED <<set, future, modified, persistence_mode, retry_count, tasks, since, budget>>

\* The transport loses the request in limbo.
Lose ==
    /\ limbo.has
    /\ limbo' = NoLimbo
    /\ last' = NoStep
    /\ UNCHANGED <<set, future, modified, persistence_mode, retry_count, tasks, since, store,
                   budget>>

Init ==
    /\ set \in SUBSET Users
    /\ future = 0
    /\ modified = FALSE
    /\ persistence_mode \in {"Off", "Uri"}
    /\ retry_count = 0
    /\ tasks = [i \in Slots |-> NoTask]
    /\ last = NoStep
    /\ since = MINIMUM_REQUEST_INTERVAL
    /\ store = NoSnapshot
    /\ limbo = NoLimbo
    /\ budget = MaxChanges

Next ==
    \/ \E v \in Users, rt \in BOOLEAN : Insert(v, rt)
    \/ \E v \in Users, rt \in BOOLEAN : Remove(v, rt)
    \/ \E k \in 0..(JitterSteps - 1), rt \in BOOLEAN : Tick(k, rt)
    \/ \E i \in Slots, plan \in PlanKinds, at \in Latencies : TaskStart(i, plan, at)
    \/ Advance

Spec == Init /\ [][Next]_vars

\* The same object with persistence enabled and every call made inside the
\* runtime.
InitRt == Init /\ persistence_mode = "Uri"

NextRt ==
    \/ \E v \in Users : Insert(v, TRUE)
    \/ \E v \in Users : Remove(v, TRUE)
    \/ \E k \in 0..(JitterSteps - 1) : Tick(k, TRUE)
    \/ \E i \in Slots, plan \in PlanKinds, at \in Latencies : TaskStart(i, plan, at)
    \/ Advance

SpecRt == InitRt /\ [][NextRt]_vars

\* The same with the remote store and the transport in sight.
NextStore ==
    \/ \E v \in Users : Insert(v, TRUE)
    \/ \E v \in Users : Remove(v, TRUE)
    \/ \E k \in 0..(JitterSteps - 1) : Tick(k, TRUE)
    \/ \E i \in Slots, plan \in PlanKinds, at \in Latencies : TaskStartRemote(i, plan, at)
    \/ AdvanceRemote
    \/ Deliver
    \/ Lose

SpecStore == InitRt /\ [][NextStore]_vars

\* The same for an owner that stops changing the membership: after its last
\* change every request sent gets the OK response.  tick keeps being called
\* and the runtime keeps running the tasks and their timers.
OwnerTick == \E k \in 0..(JitterSteps - 1) : Tick(k, TRUE)

\* The owner has made its last membership change.
Quiet == budget = 0

RuntimeStart ==
    \E i \in Slots, plan \in PlanKinds, at \in Latencies :
        /\ Quiet => plan = "ok"
        /\ TaskStartRemote(i, plan, at)

NextLive ==
    \/ \E v \in Users : CountedChange(v)
    \/ OwnerTick
    \/ RuntimeStart
    \/ AdvanceRemote
    \/ Deliver
    \/ Lose

SpecLive ==
    /\ InitRt
    /\ [][NextLive]_vars
    /\ WF_vars(OwnerTick)
    /\ WF_vars(RuntimeStart)
    /\ WF_vars(AdvanceRemote)

\* ------------------------------------------------------------------- claims
\* The step is a tick that takes a finished attempt from self.future.
Reaping == last'.op = "tick" /\ future # 0 /\ tasks[future].phase = "done"

\* The step is an insert or remove that changes the membership.
Changing == last'.op \in {"insert", "remove"} /\ set' # set

\* The step spawns exactly one attempt, without delay, whose payload is the
\* membership after the step, and tracks it.
LaunchesFresh ==
    /\ last'.spawned = 1
    /\ future' # 0
    /\ tasks'[future'].phase = "spawned"
    /\ tasks'[future'].timer = 0
    /\ tasks'[future'].waited = 0
    /\ tasks'[future'].body = set'

\* The step spawns nothing and leaves no attempt tracked.
GoesIdle == last'.spawned = 0 /\ future' = 0

\* The attempts that have not finished.
LiveCount == Cardinality({i \in Slots : Live(tasks[i])})

\* A non-success outcome: a response with a status other than OK, or the
\* local timeout.
Failed(res) == res.join = "Ok" /\ res.status # StatusOK

Succeeded(res) == res = JoinOk(StatusOK)

\* The bounds of the backoff after the n-th failure, in units of 100 ms.
InWindow(w, n) == Pow2(n) * 10 <= w /\ w <= Pow2(n + 1) * 10

\* C1: at most one attempt that has not finished exists, and an attempt is
\* spawned only by a step that found no attempt tracked or found the tracked
\* one finished.
C1_AtMostOneUnfinished ==
    [][ /\ LiveCount' <= 1
        /\ last'.spawned > 0 => (future = 0 \/ tasks[future].phase = "done") ]_vars

C1_Witness ==
    /\ last.spawned = 1
    /\ future # 0
    /\ tasks[future].by = "busy"
    /\ LiveCount = 1

\* C2: a membership change made while is_busy() leaves at most one attempt
\* running and causes exactly one more attempt: either the change spawns it
\* or it sets the dirty flag and the reaping tick spawns it, with the
\* membership of that moment as payload; once that attempt has come back OK
\* with no change made during it, nothing more is launched.
C2_ExactlyOneMoreAttempt ==
    [][ /\ LiveCount' <= 1
        /\ (Changing /\ IsBusy(future)) => (modified' \/ LaunchesFresh)
        /\ (Reaping /\ modified) => LaunchesFresh
        /\ ( /\ Reaping
             /\ tasks[future].by = "busy" \/ (tasks[future].by = "tick" /\ tasks[future].seq = 0)
             /\ Succeeded(tasks[future].result)
             /\ tasks[future].muts = 0 ) => GoesIdle ]_vars

\* C3: membership changes made while an attempt runs spawn nothing; the tick
\* that reaps it spawns one attempt with the membership of that tick, and when
\* that one comes back OK with no change made during it nothing more follows.
C3_ChangesCoalesce ==
    [][ /\ (Changing /\ future # 0 /\ Live(tasks[future]))
              => (last'.spawned = 0 /\ future' = future)
        /\ (Reaping /\ tasks[future].muts > 0) => (LaunchesFresh /\ set' = set)
        /\ ( /\ Reaping
             /\ tasks[future].by = "tick" /\ tasks[future].seq = 0
             /\ Succeeded(tasks[future].result)
             /\ tasks[future].muts = 0 ) => GoesIdle ]_vars

C3_Witness ==
    /\ last.op = "tick"
    /\ last.reaped.muts >= 2
    /\ Succeeded(last.reaped.result)
    /\ last.spawned = 1
    /\ tasks[future].body = set

\* C4: a membership change on a set with no tracked attempt makes is_busy()
\* true and launches one zero-delay attempt whose payload is the membership
\* after the change.
C4_FirstChangeLaunches ==
    [][ (Changing /\ ~IsBusy(future)) => (IsBusy(future') /\ LaunchesFresh) ]_vars

C4_Witness ==
    /\ last.op = "remove"
    /\ last.spawned = 1
    /\ tasks[future].by = "idle"
    /\ tasks[future].body = set
    /\ set # {}

\* C5: a tick that reaps a finished attempt while the dirty flag is set
\* launches a zero-delay attempt with the current membership, sets
\* retry_count to 0 and clears the flag, whatever the outcome was.
C5_DirtyReapStartsFresh ==
    [][ (Reaping /\ modified)
          => (LaunchesFresh /\ set' = set /\ retry_count' = 0 /\ ~modified') ]_vars

C5_Witness ==
    /\ last.op = "tick"
    /\ last.reaped.muts > 0
    /\ last.reaped.seq > 0
    /\ Failed(last.reaped.result)
    /\ last.spawned = 1
    /\ retry_count = 0

\* C6: when the fourth attempt of one unchanged membership (the original and
\* three retries) fails, the reaping tick launches nothing and is_busy()
\* becomes false; each of the first three failures leaves is_busy() true with
\* a retry spawned; and while not busy nothing is launched until the
\* membership changes.
C6_GivesUpAfterFourFailures ==
    [][ /\ ( /\ Reaping /\ Failed(tasks[future].result)
             /\ tasks[future].muts = 0 /\ tasks[future].seq = 3 ) => GoesIdle
        /\ ( /\ Reaping /\ Failed(tasks[future].result)
             /\ tasks[future].muts = 0 /\ tasks[future].seq < 3 )
              => /\ last'.spawned = 1
                 /\ IsBusy(future')
                 /\ ~modified => tasks'[future'].timer > 0
        /\ (~IsBusy(future) /\ set' = set) => GoesIdle ]_vars

C6_Witness ==
    /\ last.op = "tick"
    /\ last.reaped.seq = 3
    /\ last.reaped.muts = 0
    /\ Failed(last.reaped.result)
    /\ ~IsBusy(future)

\* C7: a tick that reaps a failed attempt with no change pending raises
\* retry_count by 1, and the retry it spawns sends its request between 2^n
\* and 2^(n+1) seconds after that tick, n being the new retry_count.
C7_BackoffWindow ==
    [][ /\ (Reaping /\ Failed(tasks[future].result) /\ ~modified)
              => retry_count' = retry_count + 1
        /\ \A i \in Slots :
              ( /\ tasks[i].phase = "spawned"
                /\ tasks'[i].phase \in {"request", "min", "done"}
                /\ tasks[i].seq > 0 ) => InWindow(tasks[i].waited, retry_count) ]_vars

C7_Witness ==
    /\ future # 0
    /\ tasks[future].seq = 3
    /\ tasks[future].phase = "request"
    /\ retry_count = 3

C10_BusyUntilMinimumInterval ==
    [][ ( /\ last'.op = "tick"
          /\ future # 0
          /\ tasks[future].plan = "ok"
          /\ tasks[future].phase \in {"request", "min", "done"}
          /\ ~modified )
          => IF tasks[future].age < MINIMUM_REQUEST_INTERVAL
             THEN future' = future /\ last'.spawned = 0
             ELSE tasks[future].phase # "request" => GoesIdle ]_vars

C10_Witness ==
    /\ last.op = "tick"
    /\ last.reaped.plan = "ok"
    /\ Succeeded(last.reaped.result)
    /\ last.reaped.muts = 0
    /\ ~IsBusy(future)

\* C13: insert of an identifier already present and remove of one not present
\* return false and leave the membership, the tracked attempt, the dirty flag,
\* retry_count and the tasks as they are: nothing is launched and is_busy()
\* keeps its value, with or without a runtime.
C13_RedundantCallChangesNothing ==
    \A v \in Users, rt \in BOOLEAN :
        /\ v \in set => InsertOp(Self, v, rt) = Self
        /\ v \notin set => RemoveOp(Self, v, rt) = Self

C13_Witness ==
    /\ future # 0
    /\ tasks[future].phase = "done"
    /\ modified
    /\ retry_count > 0
    /\ \E v \in Users, w \in Users :
          /\ v \in set /\ w \notin set
          /\ ~InsertOp(Self, v, TRUE).ret
          /\ ~RemoveOp(Self, w, TRUE).ret
          /\ IsBusy(InsertOp(Self, v, TRUE).future)

\* C14: with persistence off no task is ever created, is_busy() and the dirty
\* flag stay false, tick does nothing, and every insert and remove still
\* changes the membership that contains() reads.
C14_DisabledNeverPersists ==
    persistence_mode = "Off" =>
        /\ ~IsBusy(future)
        /\ ~modified
        /\ \A i \in Slots : tasks[i] = NoTask
        /\ last.spawned = 0
        /\ \A v \in Users, rt \in BOOLEAN :
              /\ InsertOp(Self, v, rt).set = set \cup {v}
              /\ RemoveOp(Self, v, rt).set = set \ {v}
              /\ InsertOp(Self, v, rt).spawned = 0
              /\ RemoveOp(Self, v, rt).spawned = 0
        /\ \A k \in 0..(JitterSteps - 1), rt \in BOOLEAN : TickOp(Self, k, rt) = Self

C14_Witness ==
    /\ persistence_mode = "Off"
    /\ last.op = "remove"
    /\ set # {}
    /\ ~IsBusy(future)

\* The membership-changing call on v: insert if v is absent, remove if present.
Change(s, v, rt) == IF v \in s.set THEN RemoveOp(s, v, rt) ELSE InsertOp(s, v, rt)

Toggle(S, v) == IF v \in S THEN S \ {v} ELSE S \cup {v}

\* C15: with persistence enabled and nothing tracked, a membership change made
\* without a runtime changes the set, creates no task and leaves is_busy()
\* false (ticks made then do nothing); the next membership change made with a
\* runtime launches one zero-delay attempt whose payload is the membership
\* with both changes applied.
C15_SkippedStartRetriedByNextChange ==
    (persistence_mode = "Uri" /\ ~IsBusy(future)) =>
        \A v \in Users :
            LET s1 == Change(Self, v, FALSE)
            IN /\ s1.ret
               /\ s1.set = Toggle(set, v)
               /\ s1.spawned = 0
               /\ ~IsBusy(s1.future)
               /\ s1.tasks = tasks
               /\ \A k \in 0..(JitterSteps - 1), rt \in BOOLEAN : TickOp(s1, k, rt) = s1
               /\ \A w \in Users :
                     LET s2 == Change([s1 EXCEPT !.ret = FALSE], w, TRUE)
                     IN /\ s2.set = Toggle(Toggle(set, v), w)
                        /\ s2.spawned = 1
                        /\ IsBusy(s2.future)
                        /\ s2.tasks[s2.future] = NewTask(s2.set, 0)

\* An insert whose start was skipped has just been made, and a remove of
\* another identifier made now with a runtime launches the attempt.
C15_Witness ==
    /\ persistence_mode = "Uri"
    /\ last.op = "insert"
    /\ last.spawned = 0
    /\ ~IsBusy(future)
    /\ \A i \in Slots : tasks[i] = NoTask
    /\ \E w \in set :
          LET s2 == RemoveOp(Self, w, TRUE)
          IN s2.spawned = 1 /\ s2.set # {} /\ s2.tasks[s2.future].body = s2.set

\* C16: in every reachable state the dirty flag is set only while an attempt
\* is tracked (modified implies is_busy()), whatever calls were made and
\* whether or not their starts were skipped for want of a runtime.
C16_DirtyOnlyWhileBusy ==
    modified => IsBusy(future)

\* The flag is set, the tracked attempt has finished, and a membership change
\* whose start was skipped has just been made.
C16_Witness ==
    /\ modified
    /\ IsBusy(future)
    /\ tasks[future].phase = "done"
    /\ last.op \in {"insert", "remove"}
    /\ last.spawned = 0

\* C18: the payload of an attempt is the membership at the call that spawned
\* it and never changes while the attempt exists; a membership change made
\* while a retry waits out its backoff delay spawns nothing, leaves that
\* retry and its payload as they are and sets the dirty flag.
C18_PayloadFixedAtSpawn ==
    [][ /\ last'.spawned > 0 => tasks'[future'].body = set'
        /\ \A i \in Slots :
              (Live(tasks[i]) /\ tasks'[i].phase # "none") => tasks'[i].body = tasks[i].body
        /\ ( /\ Changing
             /\ future # 0
             /\ tasks[future].phase = "spawned"
             /\ tasks[future].timer > 0 )
              => /\ modified'
                 /\ last'.spawned = 0
                 /\ future' = future
                 /\ tasks'[future].body = tasks[future].body
                 /\ tasks'[future].timer = tasks[future].timer ]_vars

\* A retry sends its request after a change made during its delay: its
\* payload is not the membership and the flag is set.
C18_Witness ==
    /\ future # 0
    /\ tasks[future].phase = "request"
    /\ tasks[future].seq > 0
    /\ tasks[future].muts > 0
    /\ tasks[future].body # set
    /\ modified

\* The driver has given up: nothing is tracked and the retry budget is spent.
GivenUp == ~IsBusy(future) /\ retry_count > MAX_RETRIES

\* C19: a membership change made after the driver has given up sets
\* retry_count to 0 and launches a zero-delay attempt with the membership of
\* that moment and the dirty flag clear; an attempt's place among the retries
\* is retry_count, and a failure reaped with no change pending is followed by
\* a delayed retry while retry_count was below 3 and by giving up at 3: four
\* attempts again.
C19_ChangeRearmsAfterGivingUp ==
    [][ /\ (Changing /\ GivenUp) => (retry_count' = 0 /\ LaunchesFresh /\ ~modified')
        /\ last'.spawned > 0 => tasks'[future'].seq = retry_count'
        /\ (Reaping /\ Failed(tasks[future].result) /\ ~modified)
              => /\ retry_count' = retry_count + 1
                 /\ IF retry_count < MAX_RETRIES
                    THEN last'.spawned = 1 /\ tasks'[future'].timer > 0
                    ELSE GivenUp' /\ last'.spawned = 0 ]_vars

\* The attempt launched by a change made after giving up is tracked.
C19_Witness ==
    /\ last.op \in {"insert", "remove"}
    /\ last.spawned = 1
    /\ IsBusy(future)
    /\ tasks[future].by = "rearm"
    /\ tasks[future].body = set
    /\ retry_count = 0
    /\ ~modified

\* C20: is_busy() is true whenever an attempt is outstanding (waiting out its
\* backoff delay, running its request, or waiting out the minimum interval)
\* and that attempt is the tracked one; is_busy() is false exactly when no
\* task exists, which is the case once the retry budget is spent.
C20_BusyWhileOutstanding ==
    /\ \A i \in Slots : Live(tasks[i]) => (IsBusy(future) /\ future = i)
    /\ IsBusy(future) <=> (\E i \in Slots : tasks[i].phase # "none")
    /\ retry_count > MAX_RETRIES => ~IsBusy(future)

\* A delayed retry has had its response and waits out the minimum interval.
C20_Witness ==
    /\ IsBusy(future)
    /\ tasks[future].phase = "min"
    /\ tasks[future].seq > 0
    /\ tasks[future].waited = 0
    /\ retry_count > 0

\* The step sends the request of task i.
Sends(i) ==
    /\ tasks[i].phase = "spawned"
    /\ tasks'[i].phase \in {"request", "min", "done"}
    /\ tasks'[i].plan # "panic"

\* C12: a request is sent at least MINIMUM_REQUEST_INTERVAL after the request
\* before it was sent, whatever the outcome of that one and whoever spawned
\* the second attempt.
C12_RequestsSpacedByMinimum ==
    [][ \A i \in Slots : Sends(i) => since >= MINIMUM_REQUEST_INTERVAL ]_vars

\* C11 as stated: the store never accepts a snapshot taken before one it has
\* already accepted, also when the request of a locally timed-out attempt is
\* delivered after later attempts were launched.
C11_StoreNeverRegresses ==
    ~store.regressed

\* C11 amended: a snapshot accepted on the response to an attempt's request is
\* that of the tracked attempt, the one launched last, so those snapshots are
\* accepted in launch order; the store takes an older snapshot after a newer
\* one only when the transport delivers the request of a locally timed-out
\* attempt after the snapshot of a later attempt has been accepted.
C11_RegressesOnlyByLateDelivery ==
    [][ /\ \A i \in Accepted(tasks, tasks') :
              /\ i = future
              /\ store' = [has |-> TRUE, body |-> tasks[i].body, regressed |-> FALSE]
        /\ \A i \in TimedOut(tasks, tasks') : i = future /\ limbo'.body = tasks[i].body
        /\ (store'.regressed /\ store' # store)
              => /\ tasks' = tasks
                 /\ limbo.has /\ limbo.overtaken
                 /\ store'.body = limbo.body ]_vars

\* The store holds the snapshot of a timed-out attempt, delivered after the
\* snapshot of a later attempt had been accepted; it is not the membership.
C11_Witness ==
    /\ store.regressed
    /\ store.body # set
    /\ ~IsBusy(future)
    /\ ~limbo.has

\* C17 as stated: once the owner has made its last change, with every later
\* request answered OK and tick called again and again, is_busy() becomes
\* false for good and the snapshot the store accepted last is the membership.
C17_EventuallyReplicated ==
    [](Quiet => <>[](~IsBusy(future) /\ store.has /\ store.body = set))

\* C17 amended: is_busy() becomes false for good, the store has accepted the
\* snapshot of the last attempt, which is the membership, and holds it unless
\* the transport afterwards delivered the request of an attempt that had
\* timed out locally: the store then holds that older snapshot.
C17_EventuallyIdleAndSent ==
    [](Quiet => <>[](/\ ~IsBusy(future)
                     /\ store.has
                     /\ store.body = set \/ store.regressed))

\* The owner has stopped, the driver is idle and the store holds the
\* membership, a change made during an attempt included.
C17_Witness ==
    /\ Quiet
    /\ ~IsBusy(future)
    /\ last.op = "tick"
    /\ last.reaped.muts = 0
    /\ Succeeded(last.reaped.result)
    /\ store.has
    /\ ~store.regressed
    /\ store.body = set
    /\ set # {}

\* C21: a tick made while no attempt is tracked, or while the tracked attempt
\* has not finished, leaves the membership, the tracked attempt, the dirty
\* flag, retry_count and the tasks as they are and launches nothing.
C21_TickWithoutFinishedAttempt ==
    (~IsBusy(future) \/ ~IsFinished(tasks, future)) =>
        \A k \in 0..(JitterSteps - 1), rt \in BOOLEAN : TickOp(Self, k, rt) = Self

\* A retry is waiting out its delay with a change pending, and no call has
\* changed anything since the task's last step.
C21_Witness ==
    /\ IsBusy(future)
    /\ tasks[future].phase = "spawned"
    /\ tasks[future].timer > 0
    /\ tasks[future].muts > 0
    /\ modified
    /\ retry_count > 0
    /\ last = NoStep

\* C22: in every reachable state, whatever the outcomes so far, insert adds
\* and remove takes out exactly the identifier given and returns true exactly
\* when the membership changed, with or without a runtime, and tick leaves
\* the membership as it is; the membership is thus the inserts and removes
\* applied in order to the initial set.
C22_MembershipFollowsCalls ==
    /\ \A v \in Users, rt \in BOOLEAN :
          /\ InsertOp(Self, v, rt).set = set \cup {v}
          /\ InsertOp(Self, v, rt).ret = (v \notin set)
          /\ RemoveOp(Self, v, rt).set = set \ {v}
          /\ RemoveOp(Self, v, rt).ret = (v \in set)
    /\ \A k \in 0..(JitterSteps - 1), rt \in BOOLEAN : TickOp(Self, k, rt).set = set
    /\ last.op = "insert" => set # {}
    /\ last.op = "remove" => set # Users

\* The driver has just given up and the membership is still there.
C22_Witness ==
    /\ last.op = "tick"
    /\ Failed(last.reaped.result)
    /\ retry_count > MAX_RETRIES
    /\ ~IsBusy(future)
    /\ set = Users

\* C23: a membership change made when the tracked attempt has finished and
\* tick has not taken it drops that attempt with its outcome, sets
\* retry_count to 0 and launches one zero-delay attempt with the membership
\* after the change in its place; the dirty flag keeps its value.
C23_ChangeReplacesFinishedAttempt ==
    [][ (Changing /\ IsBusy(future) /\ IsFinished(tasks, future))
          => /\ retry_count' = 0
             /\ LaunchesFresh
             /\ tasks'[future'].seq = 0
             /\ modified' = modified
             /\ \A i \in Slots : i # future' => tasks'[i].phase = "none" ]_vars

\* A failed retry was replaced by a change, with the dirty flag set before
\* and after.
C23_Witness ==
    /\ last.op \in {"insert", "remove"}
    /\ last.spawned = 1
    /\ Failed(last.reaped.result)
    /\ last.reaped.seq > 0
    /\ tasks[future].by = "busy"
    /\ retry_count = 0
    /\ modified

\* C24: retry_count is between 0 and 4, and it is 4 only while no attempt is
\* tracked, so every tracked attempt was launched with retry_count <= 3.
C24_RetryCountRange ==
    /\ retry_count \in 0..(MAX_RETRIES + 1)
    /\ IsBusy(future) => retry_count <= MAX_RETRIES
    /\ last.spawned > 0 => retry_count <= MAX_RETRIES

\* The fourth failure has just been reaped.
C24_Witness ==
    /\ retry_count = MAX_RETRIES + 1
    /\ ~IsBusy(future)
    /\ last.op = "tick"
    /\ last.reaped.seq = MAX_RETRIES

====
